---- MODULE Spec2Model ----
(***************************************************************************)
(* State-machine model of the cache library: the two LRU caches (the       *)
(* linked-list one of cache/lru.go and the slice one), and the TTL cache   *)
(* of ttl/ttl.go with its read/write lock and its background sweeper.      *)
(***************************************************************************)
EXTENDS Integers, Sequences, FiniteSets, TLC

\* ------------------------------------------------------------------ bounds
MaxKey == 3
MaxVal == 2
MaxCap == 2
MaxLruOps == 5
\* the constructors are also tried with the arguments -MaxNeg..0
MaxNeg == 1

\* TTL cache: keys, clock range, configured TTLs, goroutines, calls
MaxTtlKey == 2
MaxTime == 3
MaxTTL == 2
NumProcs == 2
MaxTtlCalls == 3
\* background tasks that may ever be started, and the largest interval
MaxTasks == 2
MaxInterval == 1
MaxSweepCalls == 2
\* calls in the runs that look at the locks
MaxLockCalls == 3
\* calls in the runs that follow a constructor of either cache
MaxNewCalls == 2

Keys == 1..MaxKey
Vals == 1..MaxVal
\* Go's zero value of Val (var z Val)
ZeroVal == 0

VARIABLES
    LRUCache,   \* the linked-list LRU: [ok, capacity, store, order]
    lruCache,   \* the slice LRU: [ok, capacity, store, order]
    lruCall,    \* the last completed LRU call and what each variant returned
    lruTouch,   \* history: per variant, stored key -> number of its last touch
    lruOps,     \* history: number of LRU calls completed
    lruLast,    \* history: key -> the value of its most recent Put
    newArg      \* history: the capacity or ttl the constructor was given

VARIABLES
    ttlOk,        \* NewTTL returned a cache (not an error)
    timeToLive,   \* TTLCache.timeToLive
    resetOnRead,  \* TTLCache.resetOnRead
    storege,      \* TTLCache.storege: key -> address of its cacheEntry
    heap,         \* the cacheEntry values: address -> [val, lastVisited]
    mu,           \* TTLCache.mu, the sync.RWMutex
    now,          \* the clock read by time.Now() and time.Since()
    pc,           \* per goroutine: the source line it is at
    call,         \* per goroutine: its call's arguments, locals and results
    failed,       \* the fatal error that ended the process, "" while it runs
    cleanupRunning, \* TTLCache.cleanupRunning
    cleanupMu,    \* TTLCache.cleanupMu, the sync.Mutex: TRUE when locked
    ctxDone,      \* per background task: its context has been cancelled
    ttlCalls      \* the number of calls the callers may still start

lruVars == <<LRUCache, lruCache, lruCall, lruTouch, lruOps, lruLast>>

ttlVars == <<ttlOk, timeToLive, resetOnRead, storege, heap, mu, now, pc, call,
             failed, cleanupRunning, cleanupMu, ctxDone, ttlCalls>>

vars == <<LRUCache, lruCache, lruCall, lruTouch, lruOps, lruLast, newArg,
          ttlOk, timeToLive, resetOnRead, storege, heap, mu, now, pc, call,
          failed, cleanupRunning, cleanupMu, ctxDone, ttlCalls>>

\* ------------------------------------------------------------ Go maps
EmptyMap == <<>>

MapSet(m, k, v) == [x \in DOMAIN m \cup {k} |-> IF x = k THEN v ELSE m[x]]

MapDelete(m, k) == [x \in DOMAIN m \ {k} |-> m[x]]

\* ------------------------------------- gods doublylinkedlist, as used
dllAdd(l, k) == Append(l, k)

\* index of the first occurrence, 0-based; -1 when absent
dllIndexOf(l, k) ==
    IF \E i \in 1..Len(l) : l[i] = k
    THEN (CHOOSE i \in 1..Len(l) : l[i] = k /\ \A j \in 1..(i - 1) : l[j] # k) - 1
    ELSE -1

\* remove the element at 0-based index i; out of range: nothing happens
dllRemove(l, i) ==
    IF i < 0 \/ i >= Len(l)
    THEN l
    ELSE [j \in 1..(Len(l) - 1) |-> IF j <= i THEN l[j] ELSE l[j + 1]]

\* ------------------------------------------------ slices.DeleteFunc
RECURSIVE DeleteFunc(_, _)
DeleteFunc(s, k) ==
    IF s = <<>> THEN <<>>
    ELSE IF Head(s) = k THEN DeleteFunc(Tail(s), k)
         ELSE <<Head(s)>> \o DeleteFunc(Tail(s), k)

\* --------------------------------------- linked-list LRU (cache/lru.go)
NewLRU(cap) ==
    IF cap <= 0
    THEN [ok |-> FALSE, capacity |-> 0, store |-> EmptyMap, order |-> <<>>]
    ELSE [ok |-> TRUE, capacity |-> cap, store |-> EmptyMap, order |-> <<>>]

\* faulty variant: the key is appended without removing its old position
LRUCache_recentify_NoRemove(c, k) ==
    [c EXCEPT !.order = dllAdd(c.order, k)]

LRUCache_recentify(c, k) ==
    [c EXCEPT !.order = dllAdd(dllRemove(c.order, dllIndexOf(c.order, k)), k)]

\* faulty variant: the most recently used key (the tail) is evicted
LRUCache_evict_Tail(c) ==
    LET t == c.order[Len(c.order)]
    IN  [c EXCEPT !.order = dllRemove(c.order, Len(c.order) - 1),
                  !.store = MapDelete(c.store, t)]

LRUCache_evict(c) ==
    LET t == c.order[1]
    IN  [c EXCEPT !.order = dllRemove(c.order, 0),
                  !.store = MapDelete(c.store, t)]

\* faulty variant: a miss appends the key to the ordering
LRUCache_Get_TouchOnMiss(c, k) ==
    IF k \in DOMAIN c.store
    THEN [c |-> LRUCache_recentify(c, k), val |-> c.store[k], found |-> TRUE]
    ELSE [c |-> LRUCache_recentify(c, k), val |-> ZeroVal, found |-> FALSE]

LRUCache_Get(c, k) ==
    IF k \in DOMAIN c.store
    THEN [c |-> LRUCache_recentify(c, k), val |-> c.store[k], found |-> TRUE]
    ELSE [c |-> c, val |-> ZeroVal, found |-> FALSE]

LRUCache_Put(c, k, v) ==
    IF k \in DOMAIN c.store
    THEN LRUCache_recentify([c EXCEPT !.store = MapSet(c.store, k, v)], k)
    ELSE LET c1 == IF Cardinality(DOMAIN c.store) = c.capacity
                   THEN LRUCache_evict(c) ELSE c
         IN  [c1 EXCEPT !.store = MapSet(c1.store, k, v),
                        !.order = dllAdd(c1.order, k)]

\* ------------------------------------------------ slice LRU (lruCache)
lruCache_NewLRU(cap) ==
    IF cap <= 0
    THEN [ok |-> FALSE, capacity |-> 0, store |-> EmptyMap, order |-> <<>>]
    ELSE [ok |-> TRUE, capacity |-> cap, store |-> EmptyMap, order |-> <<>>]

lruCache_recentify(c, k) ==
    [c EXCEPT !.order = Append(DeleteFunc(c.order, k), k)]

\* faulty variant: the last key of the slice is evicted
lruCache_evict_Last(c) ==
    [c |-> [c EXCEPT !.order = SubSeq(c.order, 1, Len(c.order) - 1)],
     evc |-> c.order[Len(c.order)]]

\* evict returns the evicted key next to the cache it leaves
lruCache_evict(c) ==
    [c |-> [c EXCEPT !.order = Tail(c.order)], evc |-> c.order[1]]

\* faulty variant: a hit returns the value without touching the ordering
lruCache_Get_NoTouch(c, k) ==
    IF k \in DOMAIN c.store
    THEN [c |-> c, val |-> c.store[k], found |-> TRUE]
    ELSE [c |-> c, val |-> ZeroVal, found |-> FALSE]

lruCache_Get(c, k) ==
    IF k \in DOMAIN c.store
    THEN [c |-> lruCache_recentify(c, k), val |-> c.store[k], found |-> TRUE]
    ELSE [c |-> c, val |-> ZeroVal, found |-> FALSE]

\* faulty variant: the capacity test is off by one, so a full cache is not evicted
lruCache_Put_NoEvict(c, k, v) ==
    IF k \in DOMAIN c.store
    THEN LET c1 == lruCache_recentify(c, k)
         IN  [c1 EXCEPT !.store = MapSet(c1.store, k, v)]
    ELSE LET c1 == IF Cardinality(DOMAIN c.store) = c.capacity + 1
                   THEN LET e == lruCache_evict(c)
                        IN  [e.c EXCEPT !.store = MapDelete(e.c.store, e.evc)]
                   ELSE c
             c2 == lruCache_recentify(c1, k)
         IN  [c2 EXCEPT !.store = MapSet(c2.store, k, v)]

\* faulty variant: an existing key gets its value but is not promoted
lruCache_Put_NoPromote(c, k, v) ==
    IF k \in DOMAIN c.store
    THEN [c EXCEPT !.store = MapSet(c.store, k, v)]
    ELSE LET c1 == IF Cardinality(DOMAIN c.store) = c.capacity
                   THEN LET e == lruCache_evict(c)
                        IN  [e.c EXCEPT !.store = MapDelete(e.c.store, e.evc)]
                   ELSE c
             c2 == lruCache_recentify(c1, k)
         IN  [c2 EXCEPT !.store = MapSet(c2.store, k, v)]

lruCache_Put(c, k, v) ==
    IF k \in DOMAIN c.store
    THEN LET c1 == lruCache_recentify(c, k)
         IN  [c1 EXCEPT !.store = MapSet(c1.store, k, v)]
    ELSE LET c1 == IF Cardinality(DOMAIN c.store) = c.capacity
                   THEN LET e == lruCache_evict(c)
                        IN  [e.c EXCEPT !.store = MapDelete(e.c.store, e.evc)]
                   ELSE c
             c2 == lruCache_recentify(c1, k)
         IN  [c2 EXCEPT !.store = MapSet(c2.store, k, v)]

\* ------------------------------------------------------- sync.RWMutex
\* readerCount counts the readers that called RLock and not yet RUnlock (the
\* blocked ones included); pending stands for the writer's subtraction of
\* rwmutexMaxReaders from readerCount; w is the inner writer mutex.
NewRWMutex == [w |-> FALSE, pending |-> FALSE, readerCount |-> 0,
               readerWait |-> 0, readerSem |-> 0, writerSem |-> 0]

\* RLock: readerCount.Add(1); the caller sleeps on readerSem when a writer
\* is pending
RLock(m) == [m EXCEPT !.readerCount = @ + 1]

RLockBlocks(m) == m.pending

\* a sleeping reader is woken by one readerSem release
RLockWake(m) == [m EXCEPT !.readerSem = @ - 1]

\* RUnlock is fatal ("sync: RUnlock of unlocked RWMutex") when no reader is
\* counted
RUnlockFatal(m) == m.readerCount = 0

\* RUnlock: readerCount.Add(-1); with a writer pending, readerWait.Add(-1)
\* and the writer is released when that reaches 0
RUnlock(m) ==
    IF ~m.pending
    THEN [m EXCEPT !.readerCount = @ - 1]
    ELSE [m EXCEPT !.readerCount = @ - 1,
                   !.readerWait = @ - 1,
                   !.writerSem = IF m.readerWait - 1 = 0 THEN @ + 1 ELSE @]

\* Lock: take w, announce the writer, add the active readers to readerWait
Lock(m) == [m EXCEPT !.w = TRUE, !.pending = TRUE,
                     !.readerWait = @ + m.readerCount]

\* the writer sleeps on writerSem when readers are active and readerWait # 0
LockBlocks(m) == m.readerCount # 0 /\ m.readerWait + m.readerCount # 0

LockWake(m) == [m EXCEPT !.writerSem = @ - 1]

\* Unlock is fatal ("sync: Unlock of unlocked RWMutex") when no writer is
\* announced
UnlockFatal(m) == ~m.pending

\* Unlock: withdraw the announcement, release every counted reader, free w
Unlock(m) == [m EXCEPT !.pending = FALSE, !.readerSem = @ + m.readerCount,
                       !.w = FALSE]

\* ------------------------------------------------ TTL cache (ttl/ttl.go)
TKeys == 1..MaxTtlKey
Procs == 1..NumProcs
\* the goroutines started by ScheduleCleanup (line 135)
Tasks == (NumProcs + 1)..(NumProcs + MaxTasks)

\* faulty variant: a ttl of zero is accepted
NewTTL_AcceptsZero(ttl, ror) ==
    IF ttl < 0
    THEN [ok |-> FALSE, storege |-> EmptyMap, timeToLive |-> 0, resetOnRead |-> FALSE]
    ELSE [ok |-> TRUE, storege |-> EmptyMap, timeToLive |-> ttl, resetOnRead |-> ror]

NewTTL(ttl, ror) ==
    IF ttl <= 0
    THEN [ok |-> FALSE, storege |-> EmptyMap, timeToLive |-> 0, resetOnRead |-> FALSE]
    ELSE [ok |-> TRUE, storege |-> EmptyMap, timeToLive |-> ttl, resetOnRead |-> ror]

\* a goroutine's call: arguments (op, k, v), locals (e, todo), results (val,
\* found, size) and history (age: the age Get compared with the TTL; reset:
\* Get wrote lastVisited; snap: the store, entries and clock when Cleanup
\* began its sweep)
NoTtlCall == [op |-> "none", k |-> 0, v |-> 0, e |-> 0, todo |-> {},
              val |-> ZeroVal, found |-> FALSE, size |-> 0,
              age |-> -1, reset |-> FALSE, snap |-> <<>>]

\* time.Since(e.lastVisited)
Since(h, e, t) == t - h[e].lastVisited

\* the entries still referenced by the map or by a running call's local e
Live(st, cl) ==
    ({st[k] : k \in DOMAIN st} \cup {cl[p].e : p \in DOMAIN cl}) \ {0}

\* the garbage collector: unreferenced entries are gone
Collect(h, st, cl) == [a \in Live(st, cl) \cap DOMAIN h |-> h[a]]

\* the address of a newly allocated cacheEntry
NewEntry(h) == CHOOSE a \in 1..(Cardinality(DOMAIN h) + 1) : a \notin DOMAIN h

Running == ttlOk /\ failed = ""

TtlUnused ==
    /\ ttlOk = FALSE /\ timeToLive = 0 /\ resetOnRead = FALSE
    /\ storege = EmptyMap /\ heap = EmptyMap /\ mu = NewRWMutex
    /\ now = 0 /\ pc = <<>> /\ call = <<>> /\ failed = "" /\ ttlCalls = 0
    /\ cleanupRunning = FALSE /\ cleanupMu = FALSE /\ ctxDone = <<>>

LruUnused ==
    /\ LRUCache = [ok |-> FALSE, capacity |-> 0, store |-> EmptyMap, order |-> <<>>]
    /\ lruCache = [ok |-> FALSE, capacity |-> 0, store |-> EmptyMap, order |-> <<>>]
    /\ lruCall = [op |-> "none"]
    /\ lruTouch = EmptyMap
    /\ lruOps = 0
    /\ lruLast = EmptyMap

InitCalls(n) ==
    /\ \E ttl \in (0 - MaxNeg)..MaxTTL, ror \in BOOLEAN :
          LET c == NewTTL(ttl, ror)
          IN  /\ newArg = ttl
              /\ ttlOk = c.ok
              /\ storege = c.storege
              /\ timeToLive = c.timeToLive
              /\ resetOnRead = c.resetOnRead
    /\ heap = EmptyMap
    /\ mu = NewRWMutex
    /\ now = 0
    /\ pc = [p \in Procs \cup Tasks |-> IF p \in Procs THEN "idle" ELSE "unborn"]
    /\ call = [p \in Procs \cup Tasks |-> NoTtlCall]
    /\ failed = ""
    /\ cleanupRunning = FALSE
    /\ cleanupMu = FALSE
    /\ ctxDone = [t \in Tasks |-> FALSE]
    /\ ttlCalls = n
    /\ LruUnused

InitTTL == InitCalls(MaxTtlCalls)

InitSweep == InitCalls(MaxSweepCalls)

\* what no TTL step changes
ConfigFrame == UNCHANGED <<lruVars, newArg, ttlOk, timeToLive, resetOnRead>>

\* what no step of Get, Put, Size, Cleanup or the clock changes
TtlFrame == ConfigFrame /\ UNCHANGED <<cleanupRunning, cleanupMu, ctxDone>>

\* a goroutine may start a call
CanCall(p) == Running /\ pc[p] = "idle" /\ ttlCalls > 0

\* the building blocks: one lock operation by goroutine p, then on to `next`
DoRLock(p, wait, next) ==
    /\ mu' = RLock(mu)
    /\ pc' = [pc EXCEPT ![p] = IF RLockBlocks(mu) THEN wait ELSE next]
    /\ UNCHANGED failed

DoRUnlock(p, next) ==
    IF RUnlockFatal(mu)
    THEN /\ failed' = "sync: RUnlock of unlocked RWMutex"
         /\ UNCHANGED <<mu, pc>>
    ELSE /\ mu' = RUnlock(mu)
         /\ pc' = [pc EXCEPT ![p] = next]
         /\ UNCHANGED failed

DoLock(p, wait, next) ==
    /\ ~mu.w
    /\ mu' = Lock(mu)
    /\ pc' = [pc EXCEPT ![p] = IF LockBlocks(mu) THEN wait ELSE next]
    /\ UNCHANGED failed

DoUnlock(p, next) ==
    IF UnlockFatal(mu)
    THEN /\ failed' = "sync: Unlock of unlocked RWMutex"
         /\ UNCHANGED <<mu, pc>>
    ELSE /\ mu' = Unlock(mu)
         /\ pc' = [pc EXCEPT ![p] = next]
         /\ UNCHANGED failed

\* where a goroutine sleeping in RLock or Lock goes on when woken
AfterRLock == [g47w |-> "g50", g75w |-> "g79", s103w |-> "s105"]
AfterLock == [g60w |-> "g61", g71w |-> "g72", p86w |-> "p89", c111w |-> "c114"]

\* a reader sleeping on readerSem is woken
RLockWoken(p) ==
    /\ Running /\ pc[p] \in DOMAIN AfterRLock
    /\ mu.readerSem > 0
    /\ mu' = RLockWake(mu)
    /\ pc' = [pc EXCEPT ![p] = AfterRLock[pc[p]]]
    /\ UNCHANGED <<storege, heap, now, call, failed, ttlCalls>>
    /\ TtlFrame

\* a writer sleeping on writerSem is woken
LockWoken(p) ==
    /\ Running /\ pc[p] \in DOMAIN AfterLock
    /\ mu.writerSem > 0
    /\ mu' = LockWake(mu)
    /\ pc' = [pc EXCEPT ![p] = AfterLock[pc[p]]]
    /\ UNCHANGED <<storege, heap, now, call, failed, ttlCalls>>
    /\ TtlFrame

\* ---- Get (lines 46-80)
\* line 47: c.mu.RLock(); line 48 defers an RUnlock
Get_RLock(p, k) ==
    /\ CanCall(p)
    /\ call' = [call EXCEPT ![p] = [NoTtlCall EXCEPT !.op = "Get", !.k = k]]
    /\ ttlCalls' = ttlCalls - 1
    /\ DoRLock(p, "g47w", "g50")
    /\ UNCHANGED <<storege, heap, now>>
    /\ TtlFrame

\* lines 50-51: e, ok := c.storege[k]
Get_Lookup(p) ==
    /\ Running /\ pc[p] = "g50"
    /\ IF call[p].k \in DOMAIN storege
       THEN /\ call' = [call EXCEPT ![p].e = storege[call[p].k]]
            /\ pc' = [pc EXCEPT ![p] = "g57"]
       ELSE /\ pc' = [pc EXCEPT ![p] = "g52"]
            /\ UNCHANGED call
    /\ UNCHANGED <<storege, heap, mu, now, failed, ttlCalls>>
    /\ TtlFrame

\* lines 52-54: c.mu.RUnlock(); return z, false
Get_MissRUnlock(p) ==
    /\ Running /\ pc[p] = "g52"
    /\ DoRUnlock(p, "d48")
    /\ UNCHANGED <<storege, heap, now, call, ttlCalls>>
    /\ TtlFrame

\* the expiry test of line 57
Get_Expired(age, ttl) == age > ttl

\* line 57: if time.Since(e.lastVisited) > c.timeToLive; line 68: if
\* c.resetOnRead
Get_CheckExpiry(p) ==
    /\ Running /\ pc[p] = "g57"
    /\ LET age == Since(heap, call[p].e, now)
       IN  /\ call' = [call EXCEPT ![p].age = age]
           /\ pc' = [pc EXCEPT ![p] =
                       IF Get_Expired(age, timeToLive) THEN "g58"
                       ELSE IF resetOnRead THEN "g69" ELSE "g79"]
    /\ UNCHANGED <<storege, heap, mu, now, failed, ttlCalls>>
    /\ TtlFrame

\* line 58: c.mu.RUnlock()
Get_ExpiredRUnlock(p) ==
    /\ Running /\ pc[p] = "g58"
    /\ DoRUnlock(p, "g60")
    /\ UNCHANGED <<storege, heap, now, call, ttlCalls>>
    /\ TtlFrame

\* line 60: c.mu.Lock()
Get_ExpiredLock(p) ==
    /\ Running /\ pc[p] = "g60"
    /\ DoLock(p, "g60w", "g61")
    /\ UNCHANGED <<storege, heap, now, call, ttlCalls>>
    /\ TtlFrame

\* line 61: delete(c.storege, k)
Get_Delete(p) ==
    /\ Running /\ pc[p] = "g61"
    /\ storege' = MapDelete(storege, call[p].k)
    /\ heap' = Collect(heap, storege', call)
    /\ pc' = [pc EXCEPT ![p] = "g62"]
    /\ UNCHANGED <<mu, now, call, failed, ttlCalls>>
    /\ TtlFrame

\* lines 62-65: c.mu.Unlock(); return z, false
Get_ExpiredUnlock(p) ==
    /\ Running /\ pc[p] = "g62"
    /\ DoUnlock(p, "d48")
    /\ UNCHANGED <<storege, heap, now, call, ttlCalls>>
    /\ TtlFrame

\* line 69: c.mu.RUnlock()
Get_ResetRUnlock(p) ==
    /\ Running /\ pc[p] = "g69"
    /\ DoRUnlock(p, "g71")
    /\ UNCHANGED <<storege, heap, now, call, ttlCalls>>
    /\ TtlFrame

\* line 71: c.mu.Lock()
Get_ResetLock(p) ==
    /\ Running /\ pc[p] = "g71"
    /\ DoLock(p, "g71w", "g72")
    /\ UNCHANGED <<storege, heap, now, call, ttlCalls>>
    /\ TtlFrame

\* line 72: e.lastVisited = time.Now()
Get_Reset(p) ==
    /\ Running /\ pc[p] = "g72"
    /\ heap' = [heap EXCEPT ![call[p].e].lastVisited = now]
    /\ call' = [call EXCEPT ![p].reset = TRUE]
    /\ pc' = [pc EXCEPT ![p] = "g73"]
    /\ UNCHANGED <<storege, mu, now, failed, ttlCalls>>
    /\ TtlFrame

\* line 73: c.mu.Unlock()
Get_ResetUnlock(p) ==
    /\ Running /\ pc[p] = "g73"
    /\ DoUnlock(p, "g75")
    /\ UNCHANGED <<storege, heap, now, call, ttlCalls>>
    /\ TtlFrame

\* line 75: c.mu.RLock()
Get_ResetRLock(p) ==
    /\ Running /\ pc[p] = "g75"
    /\ DoRLock(p, "g75w", "g79")
    /\ UNCHANGED <<storege, heap, now, call, ttlCalls>>
    /\ TtlFrame

\* lines 78-79: a second RUnlock is deferred; return e.val, true
Get_Return(p) ==
    /\ Running /\ pc[p] = "g79"
    /\ call' = [call EXCEPT ![p].val = heap[call[p].e].val, ![p].found = TRUE]
    /\ pc' = [pc EXCEPT ![p] = "d78"]
    /\ UNCHANGED <<storege, heap, mu, now, failed, ttlCalls>>
    /\ TtlFrame

\* the RUnlock deferred at line 78 runs
Get_Deferred78(p) ==
    /\ Running /\ pc[p] = "d78"
    /\ DoRUnlock(p, "d48")
    /\ UNCHANGED <<storege, heap, now, call, ttlCalls>>
    /\ TtlFrame

\* the RUnlock deferred at line 48 runs, then the caller has the result
Get_Deferred48(p) ==
    /\ Running /\ pc[p] = "d48"
    /\ DoRUnlock(p, "idle")
    /\ call' = IF RUnlockFatal(mu) THEN call ELSE [call EXCEPT ![p].e = 0]
    /\ heap' = Collect(heap, storege, call')
    /\ UNCHANGED <<storege, now, ttlCalls>>
    /\ TtlFrame

\* ---- Put (lines 85-99)
\* line 86: c.mu.Lock(); line 87 defers the Unlock
Put_Lock(p, k, v) ==
    /\ CanCall(p)
    /\ call' = [call EXCEPT ![p] = [NoTtlCall EXCEPT !.op = "Put", !.k = k, !.v = v]]
    /\ ttlCalls' = ttlCalls - 1
    /\ DoLock(p, "p86w", "p89")
    /\ UNCHANGED <<storege, heap, now>>
    /\ TtlFrame

\* line 89: if e, ok := c.storege[k]; ok
Put_Lookup(p) ==
    /\ Running /\ pc[p] = "p89"
    /\ IF call[p].k \in DOMAIN storege
       THEN /\ call' = [call EXCEPT ![p].e = storege[call[p].k]]
            /\ pc' = [pc EXCEPT ![p] = "p90"]
       ELSE /\ pc' = [pc EXCEPT ![p] = "p93"]
            /\ UNCHANGED call
    /\ UNCHANGED <<storege, heap, mu, now, failed, ttlCalls>>
    /\ TtlFrame

\* line 90: e.lastVisited = time.Now()
Put_SetLastVisited(p) ==
    /\ Running /\ pc[p] = "p90"
    /\ heap' = [heap EXCEPT ![call[p].e].lastVisited = now]
    /\ pc' = [pc EXCEPT ![p] = "p91"]
    /\ UNCHANGED <<storege, mu, now, call, failed, ttlCalls>>
    /\ TtlFrame

\* line 91: e.val = v
Put_SetVal(p) ==
    /\ Running /\ pc[p] = "p91"
    /\ heap' = [heap EXCEPT ![call[p].e].val = call[p].v]
    /\ pc' = [pc EXCEPT ![p] = "p99"]
    /\ UNCHANGED <<storege, mu, now, call, failed, ttlCalls>>
    /\ TtlFrame

\* lines 93-97: a new cacheEntry{val: v, lastVisited: time.Now()} is stored
Put_New(p) ==
    /\ Running /\ pc[p] = "p93"
    /\ LET a == NewEntry(heap)
       IN  /\ storege' = MapSet(storege, call[p].k, a)
           /\ heap' = MapSet(heap, a, [val |-> call[p].v, lastVisited |-> now])
    /\ pc' = [pc EXCEPT ![p] = "p99"]
    /\ UNCHANGED <<mu, now, call, failed, ttlCalls>>
    /\ TtlFrame

\* the Unlock deferred at line 87 runs, then Put has returned
Put_Unlock(p) ==
    /\ Running /\ pc[p] = "p99"
    /\ DoUnlock(p, "idle")
    /\ call' = IF UnlockFatal(mu) THEN call ELSE [call EXCEPT ![p].e = 0]
    /\ heap' = Collect(heap, storege, call')
    /\ UNCHANGED <<storege, now, ttlCalls>>
    /\ TtlFrame

\* ---- Size (lines 102-106)
TTLCache_Size(st) == Cardinality(DOMAIN st)

\* line 103: c.mu.RLock(); line 104 defers the RUnlock
Size_RLock(p) ==
    /\ CanCall(p)
    /\ call' = [call EXCEPT ![p] = [NoTtlCall EXCEPT !.op = "Size"]]
    /\ ttlCalls' = ttlCalls - 1
    /\ DoRLock(p, "s103w", "s105")
    /\ UNCHANGED <<storege, heap, now>>
    /\ TtlFrame

\* line 105: return len(c.storege)
Size_Len(p) ==
    /\ Running /\ pc[p] = "s105"
    /\ call' = [call EXCEPT ![p].size = TTLCache_Size(storege)]
    /\ pc' = [pc EXCEPT ![p] = "d104"]
    /\ UNCHANGED <<storege, heap, mu, now, failed, ttlCalls>>
    /\ TtlFrame

\* the RUnlock deferred at line 104 runs, then the caller has the size
Size_Deferred104(p) ==
    /\ Running /\ pc[p] = "d104"
    /\ DoRUnlock(p, "idle")
    /\ UNCHANGED <<storege, heap, now, call, ttlCalls>>
    /\ TtlFrame

\* ---- Cleanup (lines 110-119)
\* faulty variant: the test of line 115 with > as in Get
Cleanup_Expired_Strict(age, ttl) == age > ttl

\* the expiry test of line 115
Cleanup_Expired(age, ttl) == age >= ttl

\* line 111: c.mu.Lock(); line 112 defers the Unlock
Cleanup_Lock(p) ==
    /\ CanCall(p)
    /\ call' = [call EXCEPT ![p] = [NoTtlCall EXCEPT !.op = "Cleanup"]]
    /\ ttlCalls' = ttlCalls - 1
    /\ DoLock(p, "c111w", "c114")
    /\ UNCHANGED <<storege, heap, now>>
    /\ TtlFrame

\* line 114: for k, e := range c.storege begins
Cleanup_Range(p) ==
    /\ Running /\ pc[p] = "c114"
    /\ call' = [call EXCEPT ![p].todo = DOMAIN storege,
                            ![p].snap = [storege |-> storege, heap |-> heap,
                                         now |-> now]]
    /\ pc' = [pc EXCEPT ![p] = "c115"]
    /\ UNCHANGED <<storege, heap, mu, now, failed, ttlCalls>>
    /\ TtlFrame

\* lines 114-117: one iteration, in the map's arbitrary order; a key deleted
\* before the range reaches it is not produced
Cleanup_Visit(p) ==
    /\ Running /\ pc[p] = "c115"
    /\ \E k \in call[p].todo :
          /\ call' = [call EXCEPT ![p].todo = @ \ {k}]
          /\ IF /\ k \in DOMAIN storege
                /\ Cleanup_Expired(Since(heap, storege[k], now), timeToLive)
             THEN /\ storege' = MapDelete(storege, k)
                  /\ heap' = Collect(heap, storege', call')
             ELSE UNCHANGED <<storege, heap>>
    /\ UNCHANGED <<mu, now, pc, failed, ttlCalls>>
    /\ TtlFrame

\* the range is over; the Unlock deferred at line 112 runs, then Cleanup
\* has returned: to its caller, or to the background task's loop (line 144)
Cleanup_Unlock(p) ==
    /\ Running /\ pc[p] = "c115" /\ call[p].todo = {}
    /\ DoUnlock(p, IF p \in Tasks THEN "t145" ELSE "idle")
    /\ UNCHANGED <<storege, heap, now, call, ttlCalls>>
    /\ TtlFrame

\* ---- ScheduleCleanup (lines 125-153)
\* faulty variant: the running flag is not consulted
ScheduleCleanup_Starts_Always(running) == TRUE

\* line 129: a task is started only when none is running
ScheduleCleanup_Starts(running) == ~running

\* the background goroutine the next `go` statement starts
NextTask == CHOOSE t \in Tasks : pc[t] = "unborn" /\ \A u \in Tasks : u < t => pc[u] # "unborn"

\* line 126: c.cleanupMu.Lock(); line 127 defers the Unlock
Schedule_Lock(p, e) ==
    /\ CanCall(p)
    /\ \E t \in Tasks : pc[t] = "unborn"
    /\ ~cleanupMu
    /\ cleanupMu' = TRUE
    /\ call' = [call EXCEPT ![p] = [NoTtlCall EXCEPT !.op = "ScheduleCleanup", !.v = e]]
    /\ ttlCalls' = ttlCalls - 1
    /\ pc' = [pc EXCEPT ![p] = "sc129"]
    /\ UNCHANGED <<storege, heap, mu, now, failed, cleanupRunning, ctxDone>>
    /\ ConfigFrame

\* lines 129-135: return when a task is running; else set the flag and start
\* the goroutine (found records whether this call started one)
Schedule_Decide(p) ==
    /\ Running /\ pc[p] = "sc129"
    /\ IF ScheduleCleanup_Starts(cleanupRunning)
       THEN /\ cleanupRunning' = TRUE
            /\ pc' = [pc EXCEPT ![p] = "d127", ![NextTask] = "t136"]
            /\ call' = [call EXCEPT ![p].found = TRUE, ![NextTask].v = call[p].v]
       ELSE /\ pc' = [pc EXCEPT ![p] = "d127"]
            /\ UNCHANGED <<cleanupRunning, call>>
    /\ UNCHANGED <<storege, heap, mu, now, failed, cleanupMu, ctxDone, ttlCalls>>
    /\ ConfigFrame

\* the Unlock deferred at line 127 runs, then ScheduleCleanup has returned
Schedule_Unlock(p) ==
    /\ Running /\ pc[p] = "d127"
    /\ cleanupMu' = FALSE
    /\ pc' = [pc EXCEPT ![p] = "idle"]
    /\ UNCHANGED <<storege, heap, mu, now, call, failed, cleanupRunning, ctxDone, ttlCalls>>
    /\ ConfigFrame

\* line 136: ticker := time.NewTicker(e), which panics when e <= 0
Task_NewTicker(t) ==
    /\ Running /\ pc[t] = "t136"
    /\ IF call[t].v <= 0
       THEN /\ failed' = "panic: non-positive interval for NewTicker"
            /\ UNCHANGED pc
       ELSE /\ pc' = [pc EXCEPT ![t] = "t145"]
            /\ UNCHANGED failed
    /\ UNCHANGED <<storege, heap, mu, now, call, cleanupRunning, cleanupMu, ctxDone, ttlCalls>>
    /\ ConfigFrame

\* lines 145-147: case <-ticker.C: c.Cleanup(), which begins with line 111
Task_Tick(t) ==
    /\ Running /\ pc[t] = "t145"
    /\ call' = [call EXCEPT ![t] = [NoTtlCall EXCEPT !.op = "Cleanup", !.v = call[t].v]]
    /\ DoLock(t, "c111w", "c114")
    /\ UNCHANGED <<storege, heap, now, ttlCalls>>
    /\ TtlFrame

\* lines 148-149: case <-ctx.Done(): return; the deferred function starts
\* with ticker.Stop() (line 138)
Task_Done(t) ==
    /\ Running /\ pc[t] = "t145"
    /\ ctxDone[t]
    /\ pc' = [pc EXCEPT ![t] = "t139"]
    /\ UNCHANGED <<storege, heap, mu, now, call, failed, cleanupRunning, cleanupMu, ctxDone, ttlCalls>>
    /\ ConfigFrame

\* line 139: c.cleanupMu.Lock()
Task_ExitLock(t) ==
    /\ Running /\ pc[t] = "t139"
    /\ ~cleanupMu
    /\ cleanupMu' = TRUE
    /\ pc' = [pc EXCEPT ![t] = "t140"]
    /\ UNCHANGED <<storege, heap, mu, now, call, failed, cleanupRunning, ctxDone, ttlCalls>>
    /\ ConfigFrame

\* line 140: c.cleanupRunning = false
Task_ClearRunning(t) ==
    /\ Running /\ pc[t] = "t140"
    /\ cleanupRunning' = FALSE
    /\ pc' = [pc EXCEPT ![t] = "t141"]
    /\ UNCHANGED <<storege, heap, mu, now, call, failed, cleanupMu, ctxDone, ttlCalls>>
    /\ ConfigFrame

\* line 141: c.cleanupMu.Unlock(); the goroutine ends
Task_ExitUnlock(t) ==
    /\ Running /\ pc[t] = "t141"
    /\ cleanupMu' = FALSE
    /\ pc' = [pc EXCEPT ![t] = "exited"]
    /\ UNCHANGED <<storege, heap, mu, now, call, failed, cleanupRunning, ctxDone, ttlCalls>>
    /\ ConfigFrame

\* the caller cancels the context it gave to the call that started task t
Cancel(t) ==
    /\ Running /\ pc[t] \notin {"unborn", "exited"}
    /\ ~ctxDone[t]
    /\ ctxDone' = [ctxDone EXCEPT ![t] = TRUE]
    /\ UNCHANGED <<storege, heap, mu, now, pc, call, failed, cleanupRunning, cleanupMu, ttlCalls>>
    /\ ConfigFrame

\* ---- the clock
Tick ==
    /\ Running /\ now < MaxTime
    /\ now' = now + 1
    /\ UNCHANGED <<storege, heap, mu, pc, call, failed, ttlCalls>>
    /\ TtlFrame

\* the steps every goroutine running Get, Put, Size or Cleanup can take
DataStep(p) ==
    \/ RLockWoken(p) \/ LockWoken(p)
    \/ Get_Lookup(p) \/ Get_MissRUnlock(p) \/ Get_CheckExpiry(p)
    \/ Get_ExpiredRUnlock(p) \/ Get_ExpiredLock(p) \/ Get_Delete(p)
    \/ Get_ExpiredUnlock(p)
    \/ Get_ResetRUnlock(p) \/ Get_ResetLock(p) \/ Get_Reset(p)
    \/ Get_ResetUnlock(p) \/ Get_ResetRLock(p)
    \/ Get_Return(p) \/ Get_Deferred78(p) \/ Get_Deferred48(p)
    \/ Put_Lookup(p) \/ Put_SetLastVisited(p) \/ Put_SetVal(p)
    \/ Put_New(p) \/ Put_Unlock(p)
    \/ Size_Len(p) \/ Size_Deferred104(p)
    \/ Cleanup_Range(p) \/ Cleanup_Visit(p) \/ Cleanup_Unlock(p)

\* a caller starts a call of Get, Put, Size or Cleanup
DataCall(p) ==
    \/ \E k \in TKeys : Get_RLock(p, k)
    \/ \E k \in TKeys, v \in Vals : Put_Lock(p, k, v)
    \/ Size_RLock(p)
    \/ Cleanup_Lock(p)

\* ScheduleCleanup, the background task and the cancellation of its context
SweeperStep ==
    \/ \E p \in Procs :
          \/ \E e \in 0..MaxInterval : Schedule_Lock(p, e)
          \/ Schedule_Decide(p) \/ Schedule_Unlock(p)
    \/ \E t \in Tasks :
          \/ Task_NewTicker(t) \/ Task_Tick(t) \/ Task_Done(t)
          \/ Task_ExitLock(t) \/ Task_ClearRunning(t) \/ Task_ExitUnlock(t)
          \/ Cancel(t)
          \/ LockWoken(t)
          \/ Cleanup_Range(t) \/ Cleanup_Visit(t) \/ Cleanup_Unlock(t)

NextTTL ==
    \/ Tick
    \/ \E p \in Procs : DataCall(p) \/ DataStep(p)

SpecTTL == InitTTL /\ [][NextTTL]_vars

NextSweep == NextTTL \/ SweeperStep

SpecSweep == InitSweep /\ [][NextSweep]_vars

\* Fairness: the Go scheduler runs every runnable goroutine, a sleeping
\* reader or writer is woken when its semaphore is released, and a select
\* with the context done eventually takes that case.  Starting new calls,
\* the clock and the cancellation are the environment's and not fair.
SweepFairness ==
    /\ \A p \in Procs : WF_vars(DataStep(p) \/ Schedule_Decide(p) \/ Schedule_Unlock(p))
    /\ \A t \in Tasks :
          /\ WF_vars(Task_NewTicker(t) \/ Task_ExitLock(t) \/ Task_ClearRunning(t)
                       \/ Task_ExitUnlock(t) \/ LockWoken(t)
                       \/ Cleanup_Range(t) \/ Cleanup_Visit(t) \/ Cleanup_Unlock(t))
          /\ SF_vars(Task_Done(t))

SpecSweepFair == SpecSweep /\ SweepFairness

\* Fairness of the ticker: while the task waits in its select, the ticker
\* fires again and again, and the Lock that Cleanup begins with is granted
\* (the inner mutex of sync.RWMutex does not starve a waiting writer).
TickFairness == \A t \in Tasks : SF_vars(Task_Tick(t))

SpecSweepTicking == SpecSweepFair /\ TickFairness

\* The runs that look at the locks: one more call, on a cache built with
\* NewTTL(1, true), the configuration in which Get takes every branch
InitLock == InitCalls(MaxLockCalls) /\ timeToLive = 1 /\ resetOnRead

SpecLock == InitLock /\ [][NextSweep]_vars

\* ------------------------------------------------------------ TTL claims

\* goroutine p's last call was op and has returned to its caller
Returned(p, op) == pc[p] = "idle" /\ call[p].op = op

\* C4: a Get of a key whose entry has now - last_access_time >= time_to_live
\* when Get compares them (the boundary age = TTL included) returns
\* found=false: every Get that returned found=true saw an age below the TTL.
C4_GetNeverReturnsExpired ==
    \A p \in Procs :
        Returned(p, "Get") /\ call[p].found => call[p].age < timeToLive

\* C5: every call of Get, Put and Cleanup completes without a runtime
\* failure: the process never dies of a fatal error, and the data lock is
\* not released while it is not held.
C5_OperationsNeverFail == failed = ""

\* C6: the lazy removal of Get deletes k only if k's entry is expired at the
\* moment of the deletion under the exclusive lock.
C6_NoLostUpdate ==
    [][\A p \in Procs :
          (pc[p] = "g61" /\ pc'[p] = "g62" /\ call[p].k \in DOMAIN storege)
             => Since(heap, storege[call[p].k], now) >= timeToLive]_vars

\* the keys of a store whose entries are younger than the TTL at time t
FreshKeys(st, h, t) == {k \in DOMAIN st : t - h[st[k]].lastVisited < timeToLive}

\* the step is goroutine p's return from Cleanup
CleanupReturns(p) == pc[p] = "c115" /\ pc'[p] \in {"idle", "t145"}

TaskActive(t) == pc[t] \in {"t136", "t145", "c111w", "c114", "c115"}

ActiveTasks == {t \in Tasks : TaskActive(t)}

\* C8: at most one background task is active at any time, and a
\* ScheduleCleanup call that finds a task active starts nothing and changes
\* no state of the cache.
C8_AtMostOneSweeper ==
    [][/\ Cardinality(ActiveTasks') <= 1
       /\ \A p \in Procs :
             (pc[p] = "sc129" /\ pc'[p] = "d127" /\ ActiveTasks # {}) =>
                /\ \A t \in Tasks : pc'[t] = pc[t]
                /\ ~call'[p].found
                /\ UNCHANGED <<storege, heap, mu, cleanupRunning, cleanupMu, ctxDone>>]_vars

\* two callers have called ScheduleCleanup; one started the task, which is
\* running, and the other started nothing
C8_Witness ==
    \E p, q \in Procs :
        /\ p # q
        /\ Returned(p, "ScheduleCleanup") /\ call[p].found
        /\ Returned(q, "ScheduleCleanup") /\ ~call[q].found
        /\ Cardinality(ActiveTasks) = 1
        /\ \E t \in Tasks : pc[t] = "unborn"

\* C9: once the context of an active background task is cancelled, the task
\* eventually exits (which clears cleanupRunning on its way out).
C9_RestartAfterCancel ==
    \A t \in Tasks : (ctxDone[t] /\ TaskActive(t)) ~> (pc[t] = "exited")

\* C10: a Get that finds a fresh entry writes the current time to its last
\* access time exactly when resetOnAccess is set, and a Get is a hit only
\* while less than the TTL has elapsed since the entry's last refresh (its
\* last Put, or its last Get when resetOnAccess is set).
C10_ResetOnAccess ==
    \A p \in Procs :
        Returned(p, "Get") /\ call[p].found =>
            /\ call[p].reset <=> resetOnRead
            /\ call[p].age < timeToLive

\* the entries of every stored key other than k are the same after the step
OthersUnchanged(k) ==
    \A x \in DOMAIN storege \ {k} :
        /\ x \in DOMAIN storege'
        /\ storege'[x] = storege[x]
        /\ heap'[storege'[x]] = heap[storege[x]]

\* C11: a Get that finds its key stored with now - last_access_time >=
\* time_to_live goes on to remove it (lazy expiration), and the removal takes
\* exactly that key out of the store, so that Size drops by one, and leaves
\* every other entry unchanged.
C11_LazyExpiration ==
    [][\A p \in Procs :
          /\ (pc[p] = "g57" /\ pc'[p] # "g57"
                 /\ Since(heap, call[p].e, now) >= timeToLive)
                => pc'[p] = "g58"
          /\ (pc[p] = "g61" /\ pc'[p] = "g62" /\ call[p].k \in DOMAIN storege)
                => /\ DOMAIN storege' = DOMAIN storege \ {call[p].k}
                   /\ TTLCache_Size(storege') = TTLCache_Size(storege) - 1
                   /\ OthersUnchanged(call[p].k)]_vars

\* a step of goroutine p's Put: the entry of its key k is written with the
\* current time and the value v, no other entry changes, and when Put returns
\* k is stored with value v and a last access time not after the return
PutRefreshes(p) ==
    LET k == call[p].k
    IN  /\ (pc[p] \in {"p89", "p90", "p91", "p93", "p99"} /\ pc'[p] # pc[p])
              => OthersUnchanged(k)
        /\ (pc[p] = "p90" /\ pc'[p] = "p91")
              => /\ storege' = storege
                 /\ heap'[storege[k]].lastVisited = now
        /\ (pc[p] = "p91" /\ pc'[p] = "p99")
              => /\ storege' = storege
                 /\ heap'[storege[k]] = [heap[storege[k]] EXCEPT !.val = call[p].v]
        /\ (pc[p] = "p93" /\ pc'[p] = "p99")
              => /\ k \in DOMAIN storege'
                 /\ heap'[storege'[k]] = [val |-> call[p].v, lastVisited |-> now]
        /\ (pc[p] = "p99" /\ pc'[p] = "idle")
              => /\ k \in DOMAIN storege'
                 /\ heap'[storege'[k]].val = call[p].v
                 /\ heap'[storege'[k]].lastVisited <= now'

\* a step of goroutine p's Get that found its key less than the TTL after
\* the entry's last refresh: it takes the found branch, reads the entry's
\* value and returns it to the caller
FreshGetReturns(p) ==
    /\ (pc[p] = "g57" /\ pc'[p] # "g57"
           /\ Since(heap, call[p].e, now) < timeToLive)
          => pc'[p] \in {"g69", "g79"}
    /\ (pc[p] = "g79" /\ pc'[p] = "d78")
          => call'[p].found /\ call'[p].val = heap[call[p].e].val
    /\ (pc[p] \in {"d78", "d48"} /\ call[p].found)
          => failed' = ""

\* C15: Put(k, v) leaves k stored with value v and last_access_time equal to
\* the time of the Put, whether or not k was stored before and for both
\* values of resetOnAccess, and changes no other entry; a Get(k) less than
\* the TTL after that Put returns (v, true).
C15_PutRefreshes ==
    [][\A p \in Procs : PutRefreshes(p) /\ FreshGetReturns(p)]_vars

\* key k is stored and its entry is expired: now - last_access_time >= ttl
Expired(k) ==
    k \in DOMAIN storege /\ Since(heap, storege[k], now) >= timeToLive

\* a background task is active and its context is not cancelled
SweeperOn == \E t \in Tasks : TaskActive(t) /\ ~ctxDone[t]

\* the step removes k from the store only as part of a Cleanup sweep or of a
\* Get of k
RemovedOnlyBySweepOrGet(k) ==
    (k \in DOMAIN storege /\ k \notin DOMAIN storege') =>
        \E p \in Procs \cup Tasks :
            \/ pc[p] = "c115" /\ call'[p].todo # call[p].todo
            \/ pc[p] = "g61" /\ pc'[p] = "g62" /\ call[p].k = k

\* C17: while a background task is active and not cancelled, a stored entry
\* that is expired is eventually removed from the store, unless it is
\* refreshed (read with reset, or overwritten) or the task is cancelled first;
\* and an entry leaves the store only through a Cleanup sweep or a Get of its
\* key.
C17_EventualSweep ==
    /\ \A k \in TKeys :
          (SweeperOn /\ Expired(k)) ~> (~Expired(k) \/ ~SweeperOn)
    /\ [][\A k \in TKeys : RemovedOnlyBySweepOrGet(k)]_vars

\* goroutine p is inside a shared read section of the store: after an RLock
\* that was granted and before the RUnlock that ends the section
InShared(p) ==
    pc[p] \in {"g50", "g52", "g57", "g58", "g69", "g79", "d78", "s105", "d104"}

\* goroutine p has called RLock and sleeps until the writer unlocks
RLockWaiting(p) == pc[p] \in DOMAIN AfterRLock

\* goroutine p is inside an exclusive section: Put, Cleanup, or the upgraded
\* write of Get, after a Lock that was granted and before its Unlock
InExclusive(p) ==
    pc[p] \in {"g61", "g62", "g72", "g73", "p89", "p90", "p91", "p93", "p99",
               "c114", "c115"}

\* the goroutines the lock should count as readers
Readers == {p \in Procs \cup Tasks : InShared(p) \/ RLockWaiting(p)}

\* C19: no goroutine is inside an exclusive section of the TTL store while
\* another is inside a shared read section or a second exclusive one, and
\* the lock's reader count equals the number of goroutines that hold or
\* await the shared lock.
C19_DataLockExclusion ==
    /\ \A p, q \in Procs \cup Tasks :
          (p # q /\ InExclusive(p)) => ~InShared(q) /\ ~InExclusive(q)
    /\ mu.readerCount = Cardinality(Readers)

\* goroutine p holds the cleanup-scheduling lock cleanupMu
HoldsCleanupMu(p) == pc[p] \in {"sc129", "d127", "t140", "t141"}

\* goroutine p holds, or sleeps waiting for, the data lock mu
AtDataLock(p) ==
    \/ InShared(p) \/ InExclusive(p)
    \/ pc[p] \in DOMAIN AfterRLock \cup DOMAIN AfterLock

\* goroutine p is inside a call of the cache (a task: not in its select)
InCall(p) == pc[p] \notin {"idle", "unborn", "exited", "t145"}

\* goroutine p is blocked in a lock operation that nothing has released:
\* asleep on a semaphore, or waiting for a mutex another goroutine holds
BlockedOnLock(p) ==
    \/ pc[p] \in DOMAIN AfterRLock /\ mu.readerSem = 0
    \/ pc[p] \in DOMAIN AfterLock /\ mu.writerSem = 0
    \/ pc[p] \in {"g60", "g71"} /\ mu.w
    \/ pc[p] = "t139" /\ cleanupMu

\* the process runs, and every goroutine that has not returned or ended is
\* blocked on a lock; no background task is left to take a step
AllBlocked ==
    /\ Running
    /\ \E p \in Procs \cup Tasks : InCall(p)
    /\ \A p \in Procs \cup Tasks : InCall(p) => BlockedOnLock(p)
    /\ \A t \in Tasks : pc[t] # "t145"

\* C18: no goroutine is at the data lock while it holds the cleanup-
\* scheduling lock, the scheduling lock is held by at most one goroutine, and
\* no state is reached in which every goroutine is blocked on a lock.
C18_LockSeparation ==
    /\ \A p \in Procs \cup Tasks : ~(HoldsCleanupMu(p) /\ AtDataLock(p))
    /\ Cardinality({p \in Procs \cup Tasks : HoldsCleanupMu(p)}) <= 1
    /\ cleanupMu <=> \E p \in Procs \cup Tasks : HoldsCleanupMu(p)
    /\ ~AllBlocked

\* --------------------------------------------------- LRU state machine
\* (had: the key was stored when the call began)
NoCall == [op |-> "none", k |-> 0, v |-> 0,
           list |-> [val |-> ZeroVal, found |-> FALSE, evicted |-> {}, had |-> FALSE],
           slice |-> [val |-> ZeroVal, found |-> FALSE, evicted |-> {}, had |-> FALSE]]

\* the touch history after a call on key k: k is stamped when it is stored
\* after the call and the call touched it, keys no longer stored are dropped
Touched(t, store, k, hit, n) ==
    [x \in DOMAIN store |-> IF x = k /\ hit THEN n ELSE t[x]]

\* history: the keys a call removed from the store
Gone(c, d) == DOMAIN c.store \ DOMAIN d.store

InitLRU ==
    /\ \E cap \in (0 - MaxNeg)..MaxCap :
          /\ newArg = cap
          /\ LRUCache = NewLRU(cap)
          /\ lruCache = lruCache_NewLRU(cap)
    /\ lruCall = NoCall
    /\ lruTouch = [list |-> EmptyMap, slice |-> EmptyMap]
    /\ lruOps = 0
    /\ lruLast = EmptyMap
    /\ TtlUnused

LruGet(k) ==
    /\ LRUCache.ok /\ lruCache.ok
    /\ lruOps < MaxLruOps
    /\ LET r == LRUCache_Get(LRUCache, k)
           s == lruCache_Get(lruCache, k)
       IN  /\ LRUCache' = r.c
           /\ lruCache' = s.c
           /\ lruCall' = [op |-> "Get", k |-> k, v |-> 0,
                          list |-> [val |-> r.val, found |-> r.found,
                                    evicted |-> Gone(LRUCache, r.c),
                                    had |-> k \in DOMAIN LRUCache.store],
                          slice |-> [val |-> s.val, found |-> s.found,
                                     evicted |-> Gone(lruCache, s.c),
                                     had |-> k \in DOMAIN lruCache.store]]
           /\ lruTouch' =
                [list |-> Touched(lruTouch.list, r.c.store, k, r.found, lruOps + 1),
                 slice |-> Touched(lruTouch.slice, s.c.store, k, s.found, lruOps + 1)]
    /\ lruOps' = lruOps + 1
    /\ UNCHANGED <<lruLast, newArg, ttlVars>>

LruPut(k, v) ==
    /\ LRUCache.ok /\ lruCache.ok
    /\ lruOps < MaxLruOps
    /\ LET r == LRUCache_Put(LRUCache, k, v)
           s == lruCache_Put(lruCache, k, v)
       IN  /\ LRUCache' = r
           /\ lruCache' = s
           /\ lruCall' = [NoCall EXCEPT !.op = "Put", !.k = k, !.v = v,
                                        !.list.evicted = Gone(LRUCache, r),
                                        !.list.had = k \in DOMAIN LRUCache.store,
                                        !.slice.evicted = Gone(lruCache, s),
                                        !.slice.had = k \in DOMAIN lruCache.store]
           /\ lruTouch' =
                [list |-> Touched(lruTouch.list, r.store, k, TRUE, lruOps + 1),
                 slice |-> Touched(lruTouch.slice, s.store, k, TRUE, lruOps + 1)]
    /\ lruOps' = lruOps + 1
    /\ lruLast' = MapSet(lruLast, k, v)
    /\ UNCHANGED <<newArg, ttlVars>>

NextLRU ==
    \/ \E k \in Keys : LruGet(k)
    \/ \E k \in Keys, v \in Vals : LruPut(k, v)

SpecLRU == InitLRU /\ [][NextLRU]_vars

\* ------------------------------------------------------------ LRU claims

\* the step is a completed Put(k, v)
IsLruPut(k, v) ==
    /\ lruOps' = lruOps + 1
    /\ lruCall'.op = "Put" /\ lruCall'.k = k /\ lruCall'.v = v

\* Put(k, v) took cache c to d by removing exactly the stored key whose last
\* touch (by history t) is older than every other stored key's
EvictsOldest(c, d, t, k, v) ==
    \E victim \in DOMAIN c.store :
        /\ \A x \in DOMAIN c.store \ {victim} : t[victim] < t[x]
        /\ DOMAIN d.store = (DOMAIN c.store \ {victim}) \cup {k}
        /\ \A x \in DOMAIN c.store \ {victim} : d.store[x] = c.store[x]
        /\ d.store[k] = v

PutOnFull(c, k) ==
    c.ok /\ k \notin DOMAIN c.store /\ Cardinality(DOMAIN c.store) = c.capacity

\* C1: a Put(k, v) of an absent key on a full LRU cache removes exactly the
\* stored key whose most recent touch (successful Get, or Put) is the oldest,
\* keeps every other stored key with its value and stores k with v; in the
\* linked-list cache and in the slice cache.
C1_EvictionVictim ==
    [][\A k \in Keys, v \in Vals :
          IsLruPut(k, v) =>
             /\ PutOnFull(LRUCache, k) =>
                   EvictsOldest(LRUCache, LRUCache', lruTouch.list, k, v)
             /\ PutOnFull(lruCache, k) =>
                   EvictsOldest(lruCache, lruCache', lruTouch.slice, k, v)]_vars

\* a Put evicted a key that was not the first one inserted among the stored
\* ones: an earlier Get hit had reordered the two stored keys
C1_Witness ==
    /\ lruCall.op = "Put"
    /\ LRUCache.capacity = 2 /\ lruCache.capacity = 2
    /\ \E a, b \in Keys :
          /\ a < b
          /\ lruCall.list.evicted = {b} /\ lruCall.slice.evicted = {b}
          /\ LRUCache.order = <<a, lruCall.k>>
          /\ lruCache.order = <<a, lruCall.k>>

SizeBound(c) ==
    c.ok => /\ Cardinality(DOMAIN c.store) = Len(c.order)
            /\ Cardinality(DOMAIN c.store) <= c.capacity

\* C2: after every completed Get or Put on an LRU cache built with a positive
\* capacity, the store and the ordering have the same length and that length
\* is at most the capacity.
C2_SizeBound == SizeBound(LRUCache) /\ SizeBound(lruCache)

\* a Put of a new key on a full cache has completed
C2_Witness ==
    /\ lruCall.op = "Put" /\ lruCall.list.evicted # {} /\ lruCall.slice.evicted # {}
    /\ Cardinality(DOMAIN LRUCache.store) = LRUCache.capacity
    /\ Cardinality(DOMAIN lruCache.store) = lruCache.capacity
    /\ LRUCache.capacity = MaxCap

Occurrences(s, k) == Cardinality({i \in 1..Len(s) : s[i] = k})

StoreOrderAgree(c) ==
    \A k \in Keys \cup DOMAIN c.store \cup {c.order[i] : i \in 1..Len(c.order)} :
        /\ k \in DOMAIN c.store <=> Occurrences(c.order, k) >= 1
        /\ Occurrences(c.order, k) <= 1

\* C3: in every state reached by Get and Put, a key is in the store if and
\* only if it occurs in the recency ordering, and it occurs there exactly once.
C3_StoreOrderAgree == StoreOrderAgree(LRUCache) /\ StoreOrderAgree(lruCache)

\* a Get hit moved a stored key from the head of a two-key ordering to its tail
C3_Witness ==
    /\ lruCall.op = "Get" /\ lruCall.list.found /\ lruCall.slice.found
    /\ Len(LRUCache.order) = 2 /\ LRUCache.order[2] = lruCall.k
    /\ Len(lruCache.order) = 2 /\ lruCache.order[2] = lruCall.k
    /\ lruTouch.list[LRUCache.order[1]] > 1

\* the ordering o without the key k
Without(o, k) == SelectSeq(o, LAMBDA x : x # k)

\* Put(k, v) on a cache c that stores k took it to d: same keys, same size,
\* k -> v, every other value kept, k last in the ordering and the other keys
\* in their old relative order
PromotesExisting(c, d, k, v) ==
    /\ DOMAIN d.store = DOMAIN c.store
    /\ Cardinality(DOMAIN d.store) = Cardinality(DOMAIN c.store)
    /\ Len(d.order) = Len(c.order)
    /\ d.store[k] = v
    /\ \A x \in DOMAIN c.store \ {k} : d.store[x] = c.store[x]
    /\ d.order = Append(Without(c.order, k), k)
    /\ d.capacity = c.capacity

\* C12: a Put(k, v) on an LRU cache that stores k leaves the set of stored
\* keys and the size unchanged (nothing is evicted), sets k's value to v,
\* moves k to the most-recently-used end and keeps the relative order of the
\* other keys; in the linked-list cache and in the slice cache.
C12_PutExisting ==
    [][\A k \in Keys, v \in Vals :
          IsLruPut(k, v) =>
             /\ (LRUCache.ok /\ k \in DOMAIN LRUCache.store) =>
                   PromotesExisting(LRUCache, LRUCache', k, v)
             /\ (lruCache.ok /\ k \in DOMAIN lruCache.store) =>
                   PromotesExisting(lruCache, lruCache', k, v)]_vars

\* a Put on a full cache of two keys overwrote the value of the key at the
\* head of the ordering and moved it to the tail, evicting nothing
C12_Witness ==
    /\ lruCall.op = "Put" /\ lruCall.list.had /\ lruCall.slice.had
    /\ lruCall.list.evicted = {} /\ lruCall.slice.evicted = {}
    /\ LRUCache.capacity = 2 /\ Len(LRUCache.order) = 2 /\ Len(lruCache.order) = 2
    /\ LRUCache.order[2] = lruCall.k /\ lruCache.order[2] = lruCall.k
    /\ lruTouch.list[LRUCache.order[1]] = lruOps - 1
    /\ LRUCache.store[lruCall.k] = 2 /\ lruCache.store[lruCall.k] = 2
    /\ lruOps = 3

\* the step is a completed Get(k)
IsLruGet(k) ==
    /\ lruOps' = lruOps + 1
    /\ lruCall'.op = "Get" /\ lruCall'.k = k

\* Get(k) on a cache c that stores k took it to d and returned res: the value
\* of k's most recent Put with found=true, the store as it was, k last in
\* the ordering and the other keys in their old relative order
GetHit(c, d, res, k) ==
    /\ res.found
    /\ res.val = lruLast[k]
    /\ d.store = c.store
    /\ d.order = Append(Without(c.order, k), k)
    /\ d.capacity = c.capacity

\* C13: a Get(k) on an LRU cache that stores k returns (v, true) with v the
\* value of the most recent Put(k, v), leaves the store's keys and values
\* unchanged, moves k to the most-recently-used end and keeps the relative
\* order of the other keys; in the linked-list cache and in the slice cache.
C13_GetHit ==
    [][\A k \in Keys :
          IsLruGet(k) =>
             /\ (LRUCache.ok /\ k \in DOMAIN LRUCache.store) =>
                   GetHit(LRUCache, LRUCache', lruCall'.list, k)
             /\ (lruCache.ok /\ k \in DOMAIN lruCache.store) =>
                   GetHit(lruCache, lruCache', lruCall'.slice, k)]_vars

\* a Get hit returned the second value Put for the key at the head of a
\* two-key ordering and moved that key to the tail
C13_Witness ==
    /\ lruCall.op = "Get" /\ lruCall.list.found /\ lruCall.slice.found
    /\ lruCall.list.val = 2 /\ lruCall.slice.val = 2
    /\ lruLast[lruCall.k] = 2
    /\ Len(LRUCache.order) = 2 /\ Len(lruCache.order) = 2
    /\ LRUCache.order[2] = lruCall.k /\ lruCache.order[2] = lruCall.k
    /\ lruTouch.slice[lruCache.order[1]] = 3
    /\ lruOps = 4

\* Get(k) on a cache c that does not store k took it to d and returned res:
\* found=false, and the store, the ordering and the capacity as they were
GetMiss(c, d, res) ==
    /\ ~res.found
    /\ d.store = c.store
    /\ d.order = c.order
    /\ d.capacity = c.capacity

\* C14: a Get(k) on an LRU cache that does not store k returns found=false
\* and leaves the store, the recency ordering and the capacity unchanged; in
\* the linked-list cache and in the slice cache.
C14_GetMiss ==
    [][\A k \in Keys :
          IsLruGet(k) =>
             /\ (LRUCache.ok /\ k \notin DOMAIN LRUCache.store) =>
                   GetMiss(LRUCache, LRUCache', lruCall'.list)
             /\ (lruCache.ok /\ k \notin DOMAIN lruCache.store) =>
                   GetMiss(lruCache, lruCache', lruCall'.slice)]_vars

\* a Get missed on a full cache of two keys: a key that had been evicted
C14_Witness ==
    /\ lruCall.op = "Get" /\ ~lruCall.list.found /\ ~lruCall.slice.found
    /\ ~lruCall.list.had /\ ~lruCall.slice.had
    /\ lruCall.k \in DOMAIN lruLast
    /\ LRUCache.capacity = 2
    /\ Len(LRUCache.order) = 2 /\ Len(lruCache.order) = 2
    /\ lruCall.k \notin DOMAIN LRUCache.store
    /\ lruCall.k \notin DOMAIN lruCache.store

\* C20: the slice LRU and the linked-list LRU, started empty with the same
\* capacity and driven by the same sequence of Get and Put calls, return the
\* same (value, found) results and have after every call equal stores and
\* equal ordering sequences.
C20_VariantsEquivalent ==
    /\ LRUCache.ok = lruCache.ok
    /\ LRUCache.capacity = lruCache.capacity
    /\ LRUCache.store = lruCache.store
    /\ LRUCache.order = lruCache.order
    /\ lruCall.list.val = lruCall.slice.val
    /\ lruCall.list.found = lruCall.slice.found
    /\ lruCall.list.evicted = lruCall.slice.evicted

\* after the longest run, with every key Put at least once (so one was
\* evicted), a Get hit has reordered the two stored keys in both variants
C20_Witness ==
    /\ lruOps = MaxLruOps
    /\ DOMAIN lruLast = Keys
    /\ lruCall.op = "Get" /\ lruCall.list.found /\ lruCall.slice.found
    /\ lruCall.list.val = 2 /\ lruCall.slice.val = 2
    /\ LRUCache.capacity = 2
    /\ Len(LRUCache.order) = 2 /\ lruCache.order = LRUCache.order
    /\ lruTouch.list[LRUCache.order[1]] = lruOps - 1

\* ------------------------------------------------ construction (both caches)
\* a program constructs one cache, an LRU one or a TTL one, and uses it
InitNew == InitLRU \/ InitCalls(MaxNewCalls)

NextNew == NextLRU \/ NextTTL

SpecNew == InitNew /\ [][NextNew]_vars

\* the state is one of a program that called NewLRU / NewTTL
LruUsed == lruTouch # EmptyMap

TtlUsed == pc # <<>>

\* no operation of the TTL cache has been called yet
NoTtlCallYet == \A p \in DOMAIN call : call[p].op = "none"

\* a constructor result c for the argument arg: an error exactly when arg <= 0,
\* else a cache with that capacity
LruConstructed(c, arg) ==
    /\ c.ok <=> arg > 0
    /\ c.ok => c.capacity = arg /\ c.capacity > 0
    /\ ~c.ok => c.store = EmptyMap /\ c.order = <<>> /\ lruOps = 0
    /\ lruOps = 0 => c.store = EmptyMap /\ c.order = <<>>

\* C16: NewLRU(capacity) returns an error and no cache exactly when capacity
\* <= 0, NewTTL(ttl, resetOnAccess) exactly when ttl <= 0; otherwise the cache
\* returned is empty, and its capacity / time_to_live is the positive value
\* given and is changed by no later operation.
C16_ConstructionErrors ==
    /\ LruUsed => LruConstructed(LRUCache, newArg) /\ LruConstructed(lruCache, newArg)
    /\ TtlUsed =>
          /\ ttlOk <=> newArg > 0
          /\ ttlOk => timeToLive = newArg /\ timeToLive > 0
          /\ ~ttlOk => NoTtlCallYet /\ storege = EmptyMap
          /\ NoTtlCallYet => storege = EmptyMap /\ heap = EmptyMap

\* a TTL cache built with the largest ttl has been used for every call of
\* the run, holds an entry, and the clock has moved
C16_Witness ==
    /\ TtlUsed /\ ttlOk /\ newArg = MaxTTL /\ timeToLive = MaxTTL
    /\ ttlCalls = 0 /\ \A p \in Procs : pc[p] = "idle"
    /\ storege # EmptyMap /\ now = MaxTime

====
